---------------------------- MODULE Spec2Model ----------------------------
(***************************************************************************)
(* Model of routeme.                                                       *)
(*   - Spec, SpecPersisted: the search-history store                       *)
(*     (src/src/utils/eventBus.js, the part headed "storage.js"): one JSON *)
(*     blob under SEARCH_KEY, read, rewritten and written back whole by    *)
(*     every mutation.                                                     *)
(*   - SpecBus: the event bus (src/src/utils/eventBus.js:1-28).            *)
(*   - SpecContainer: the location container                               *)
(*     (src/src/context/LocationContext.js) used by any consumer.          *)
(*   - SpecRoute: the container under HomeScreen with the routing fetch    *)
(*     of src/src/components/RouteDirections.js.                           *)
(*   - SpecMonitor: the same with the 10 s deviation timer of              *)
(*     RouteDirections, the timer and the responses being fair.            *)
(*   - SpecHook: the useUserLocation hook (src/unnamed/part_001).          *)
(*   - SpecOverlap: saveSearchEntry calls whose reads and writes           *)
(*     interleave.                                                         *)
(*   - SpecDetails: the favorite toggle of LocationDetailsModal over the   *)
(*     container and the store.                                            *)
(*   - SpecFormat: formatDuration (src/src/utils/mapHelpers.js).           *)
(*                                                                         *)
(* JavaScript values are encoded as follows.                               *)
(*   - an absent / undefined placeId, timestamp, latitude or longitude of  *)
(*     an argument object is 0; real values are positive;                  *)
(*   - the optional `favorite` of a caller's entry is one of the strings   *)
(*     "omit", "true", "false"; a stored favorite is a BOOLEAN;            *)
(*   - the blob under SEARCH_KEY is <<>> when the key is absent (getItem   *)
(*     yields null), <<list>> when it holds the JSON text of list, and the *)
(*     pair CorruptBlob when it holds text that JSON.parse rejects;        *)
(*   - a destination without coordinates has place 0, and a destination    *)
(*     without favorite flag has favorite FALSE (both are falsy);          *)
(*   - durations are integers counting tenths of a minute.                 *)
(***************************************************************************)
EXTENDS Integers, Sequences, FiniteSets, Bags, TLC

\* ------------------------------------------------------------- bounds
\* The source keeps STORAGE_CAP = 50 (eventBus.js:43).  The model scales the
\* cap down so that lists at and over the cap are reachable; every formula
\* below is stated relative to STORAGE_CAP.
STORAGE_CAP == 2

\* Date.now() ranges over 1..MaxClock.
MaxClock == 2

\* Warnings are counted up to MaxWarn; operations of a store without a
\* backend stop once the count is reached.
MaxWarn == 3

PlaceIds == {1, 2}
Coords == {<<1, 1>>, <<1, 2>>}
FavArgs == {"omit", "true", "false"}

VARIABLES
    asyncStorage,  \* global.RoutemeAsyncStorage is wired (App.js:7)
    stored,        \* the blob under SEARCH_KEY of the store in use
    now,           \* Date.now()
    warnings,      \* number of warnInstall() logs so far
    last,          \* the operation completed last, with its locals
    listeners,     \* eventBus.js `listeners`: event -> callbacks, in push order
    handles,       \* <<event, cb>> pairs for which on() has returned a handle
    unsubscribed,  \* pairs whose handle (or off) ran and were not subscribed again
    emission,      \* the emit() completed last, with what it invoked
    currentLocation,   \* LocationContext atoms (LocationContext.js:29-44)
    destination,
    routeInfo,
    routeCoordinates,
    isLoadingRoute,
    isJourneyActive,
    screen,        \* HomeScreen is rendered under the provider (App.js)
    mounted,       \* HomeScreen renders a RouteDirections instance
    isFetching,    \* isFetchingRef.current of that instance
    lastFetchKey,  \* lastFetchKeyRef.current of that instance
    inflight,      \* bag of the directions requests awaiting their response
    pending,       \* state updates the running handler has still to commit
    batching,      \* how the React root of this build batches state updates
    call,          \* the container operation started last, with its argument
    effectRun,     \* what the fetch effect did in the last render
    probeCompleted,    \* this instance has seen a request for the key Probe complete
    intervals,         \* ids of the setInterval timers that are running
    routeCheckIntervalRef,  \* routeCheckIntervalRef.current, 0 for null
    previousLocationRef,    \* previousLocationRef.current, 0 for null
    deviationSeen,     \* the fix the last deviation check logged as deviated, or 0
    hookPc,            \* the await startLocationTracking is suspended at
    hookMounted,       \* the component using useUserLocation is mounted
    locationSubscription,  \* the effect's `let locationSubscription`, 0 for null
    headingSubAttached,    \* locationSubscription._headingSub is set
    positionWatch,     \* the device's position subscription
    headingWatch,      \* the device's heading subscription
    location,          \* useUserLocation state
    heading,
    errorMsg,
    loading,
    refreshes,         \* refreshLocation calls awaiting getCurrentPositionAsync
    saving,            \* per caller: the saveSearchEntry that has read and not written
    toggling,          \* handleToggleFavorite calls waiting for toggleFavorite
    duration,          \* the argument of formatDuration, in tenths of a minute
    formatted          \* what formatDuration returned for it

storeVars == <<asyncStorage, stored, now, warnings, last>>

busVars == <<listeners, handles, unsubscribed, emission>>

routeVars == <<currentLocation, destination, routeInfo, routeCoordinates,
               isLoadingRoute, isJourneyActive, screen, mounted, isFetching,
               lastFetchKey, inflight, pending, batching, call, effectRun,
               probeCompleted, intervals, routeCheckIntervalRef,
               previousLocationRef, deviationSeen>>

hookVars == <<hookPc, hookMounted, locationSubscription, headingSubAttached,
              positionWatch, headingWatch, location, heading, errorMsg,
              loading, refreshes>>

\* What neither the store, the bus nor the container and its screen touch.
\* Handlers suspended at an await of the store.
handlerVars == <<saving, toggling>>

\* A call of a display helper.
helperVars == <<duration, formatted>>

elsewhere == <<hookVars, handlerVars, helperVars>>

\* Everything the search-history store does not touch.
outsideStore == <<busVars, routeVars, elsewhere>>

vars == <<storeVars, busVars, routeVars, elsewhere>>

\* ------------------------------------------------------------- helpers
JSONStringify(list) == <<list>>

JSONParse(raw) == raw[1]

\* Text under SEARCH_KEY that is not JSON (left by something else than this
\* store: the store itself only writes JSONStringify of a list).
CorruptBlob == <<"not", "json">>

\* JSON.parse(raw) returns instead of throwing.
Parses(raw) == Len(raw) = 1

\* `let list = []; if (prevRaw) { try { list = JSON.parse(prevRaw) }
\*  catch (e) { list = [] } }`
ReadList(raw) == IF raw = <<>> \/ ~Parses(raw) THEN <<>> ELSE JSONParse(raw)

\* Mutant: loadSearchHistory without its try/catch.
LoadOutcomeUncaught(raw, rejected) ==
    IF rejected \/ (raw # <<>> /\ ~Parses(raw))
    THEN [threw |-> TRUE, value |-> <<>>]
    ELSE [threw |-> FALSE, value |-> IF raw = <<>> THEN <<>> ELSE JSONParse(raw)]

\* What loadSearchHistory returns for the blob raw; `rejected`: getItem
\* rejects.  `if (!raw) return []; return JSON.parse(raw)`, and
\* `catch (err) { ...; return [] }`.
LoadOutcome(raw, rejected) ==
    [threw |-> FALSE,
     value |-> IF rejected \/ raw = <<>> \/ ~Parses(raw) THEN <<>> ELSE JSONParse(raw)]

RemoveAt(s, i) == SubSeq(s, 1, i - 1) \o SubSeq(s, i + 1, Len(s))

\* The callback of list.find / list.filter in saveSearchEntry.
SameKey(entry, e) ==
    IF entry.placeId # 0 /\ e.placeId # 0
    THEN e.placeId = entry.placeId
    ELSE e.latitude = entry.latitude /\ e.longitude = entry.longitude

\* list.find: the index of the first match, 0 when there is none.
FindExisting(list, entry) ==
    IF \E i \in 1..Len(list) : SameKey(entry, list[i])
    THEN CHOOSE i \in 1..Len(list) :
            /\ SameKey(entry, list[i])
            /\ \A j \in 1..(i - 1) : ~SameKey(entry, list[j])
    ELSE 0

\* Mutant: the filter forgets the coordinate fallback.
FilteredNoCoords(list, entry) ==
    SelectSeq(list, LAMBDA e :
        ~(entry.placeId # 0 /\ e.placeId # 0 /\ e.placeId = entry.placeId))

\* `list.filter(...)`: the entries that do not match the saved one.
Filtered(list, entry) == SelectSeq(list, LAMBDA e : ~SameKey(entry, e))

\* Mutant: the favorite of the existing match is dropped.
NewEntryForgetful(entry, list, t) ==
    [placeId   |-> entry.placeId,
     latitude  |-> entry.latitude,
     longitude |-> entry.longitude,
     timestamp |-> t,
     favorite  |-> entry.favorite = "true"]

\* `{ ...entry, timestamp: Date.now(),
\*    favorite: existing?.favorite || entry.favorite || false }`
NewEntry(entry, list, t) ==
    LET x == FindExisting(list, entry) IN
    [placeId   |-> entry.placeId,
     latitude  |-> entry.latitude,
     longitude |-> entry.longitude,
     timestamp |-> t,
     favorite  |-> (x # 0 /\ list[x].favorite) \/ entry.favorite = "true"]

\* Mutant: push instead of unshift.
UpsertedAtTail(entry, list, t) == Filtered(list, entry) \o <<NewEntry(entry, list, t)>>

\* `filtered.unshift(newEntry)`
Upserted(entry, list, t) == <<NewEntry(entry, list, t)>> \o Filtered(list, entry)

\* Mutant: the loop stops at the first favorite it meets.
RECURSIVE EvictUntilFavorite(_, _)
EvictUntilFavorite(toStore, i) ==
    IF i >= 1 /\ Len(toStore) > STORAGE_CAP /\ ~toStore[i].favorite
    THEN EvictUntilFavorite(RemoveAt(toStore, i), i - 1)
    ELSE toStore

\* The eviction loop, entered at index i (1-based) and going down:
\* `for (i = length - 1; i >= 0 && length > STORAGE_CAP; i--)
\*     if (!toStore[i].favorite) toStore.splice(i, 1)`
RECURSIVE EvictFrom(_, _)
EvictFrom(toStore, i) ==
    IF i >= 1 /\ Len(toStore) > STORAGE_CAP
    THEN IF ~toStore[i].favorite
         THEN EvictFrom(RemoveAt(toStore, i), i - 1)
         ELSE EvictFrom(toStore, i - 1)
    ELSE toStore

\* Mutant: plain truncation to the cap, favorites or not.
EvictTruncate(filtered) ==
    SubSeq(filtered, 1, IF Len(filtered) > STORAGE_CAP THEN STORAGE_CAP ELSE Len(filtered))

\* `let toStore = filtered.slice(); if (toStore.length > STORAGE_CAP) {...}`
Evict(filtered) == EvictFrom(filtered, Len(filtered))

\* The list saveSearchEntry writes back.
SaveResult(entry, list, t) == Evict(Upserted(entry, list, t))

\* Function matchers: the predicates a caller may pass.
ApplyFn(fn, e) ==
    CASE fn = "isFavorite" -> e.favorite
      [] fn = "noPlaceId"  -> e.placeId = 0
      [] OTHER             -> FALSE

\* The filter callback of removeSearchEntry, negated: e is to be removed.
RemoveMatches(matcher, e) ==
    IF matcher.fn # "none" THEN ApplyFn(matcher.fn, e)
    ELSE \/ matcher.timestamp # 0 /\ e.timestamp = matcher.timestamp
         \/ matcher.placeId # 0 /\ e.placeId # 0 /\ e.placeId = matcher.placeId
         \/ /\ matcher.latitude # 0
            /\ matcher.longitude # 0
            /\ e.latitude = matcher.latitude
            /\ e.longitude = matcher.longitude

\* Mutant: only the first match is removed.
RemoveFirstOnly(matcher, list) ==
    IF \E i \in 1..Len(list) : RemoveMatches(matcher, list[i])
    THEN RemoveAt(list, CHOOSE i \in 1..Len(list) :
                     /\ RemoveMatches(matcher, list[i])
                     /\ \A j \in 1..(i - 1) : ~RemoveMatches(matcher, list[j]))
    ELSE list

\* `list.filter(...)` of removeSearchEntry.
RemoveResult(matcher, list) == SelectSeq(list, LAMBDA e : ~RemoveMatches(matcher, e))

\* `match` of the map callback of toggleFavorite.
ToggleMatches(matcher, e) ==
    IF matcher.fn # "none" THEN ApplyFn(matcher.fn, e)
    ELSE IF matcher.timestamp # 0 /\ e.timestamp = matcher.timestamp THEN TRUE
    ELSE IF matcher.placeId # 0 /\ e.placeId # 0 /\ e.placeId = matcher.placeId THEN TRUE
    ELSE IF /\ matcher.latitude # 0
            /\ matcher.longitude # 0
            /\ e.latitude = matcher.latitude
            /\ e.longitude = matcher.longitude THEN TRUE
    ELSE FALSE

\* Mutant: a match is marked favorite instead of flipped.
ToggleEntrySets(matcher, e) ==
    IF ToggleMatches(matcher, e) THEN [e EXCEPT !.favorite = TRUE] ELSE e

\* `return { ...entry, favorite: !entry.favorite }` for a match, else entry.
ToggleEntry(matcher, e) ==
    IF ToggleMatches(matcher, e) THEN [e EXCEPT !.favorite = ~e.favorite] ELSE e

\* `list.map(...)` of toggleFavorite.
ToggleResult(matcher, list) == [i \in 1..Len(list) |-> ToggleEntry(matcher, list[i])]

\* `changed` of toggleFavorite.
ToggleChanged(matcher, list) == \E i \in 1..Len(list) : ToggleMatches(matcher, list[i])

\* ------------------------------------------------------------- inputs
Entries ==
    [placeId : {0} \cup PlaceIds, latitude : {1, 2}, longitude : {1, 2},
     favorite : FavArgs]

EntryArgs == {e \in Entries : <<e.latitude, e.longitude>> \in Coords}

ObjMatchers ==
    [fn : {"none"}, timestamp : 0..MaxClock, placeId : {0} \cup PlaceIds,
     latitude : 0..2, longitude : 0..2]

\* Object matchers with one key (timestamp, placeId or the coordinate pair),
\* as the callers build them, or with a placeId and a coordinate pair (a whole
\* place passed as matcher), and the function matchers.
Matchers ==
    {m \in ObjMatchers :
        \/ m.timestamp # 0 /\ m.placeId = 0 /\ m.latitude = 0 /\ m.longitude = 0
        \/ m.timestamp = 0 /\ m.placeId # 0 /\ m.latitude = 0 /\ m.longitude = 0
        \/ /\ m.timestamp = 0
           /\ <<m.latitude, m.longitude>> \in Coords}
    \cup {[fn |-> f, timestamp |-> 0, placeId |-> 0, latitude |-> 0, longitude |-> 0] :
            f \in {"isFavorite", "noPlaceId"}}

\* ------------------------------------------------------------- event bus
\* eventBus.js:1-28.  A callback is named by a number; two registrations of
\* the same function are the same number (`f !== cb` compares identity).
Events == {"searchHistoryChanged", "selectionMade"}
Cbs == {1, 2, 3}

\* on() is not offered once an event has MaxListeners registrations.
MaxListeners == 2

NoEmission == [event |-> "none", throwers |-> {}, invoked |-> <<>>,
               caught |-> <<>>, threw |-> FALSE]

\* `(listeners[event] || []).filter((f) => f !== cb)`
Without(cbs, cb) == SelectSeq(cbs, LAMBDA f : f # cb)

\* Mutant: forEach without the try/catch around cb(payload).
RECURSIVE EmitUncaught(_, _, _)
EmitUncaught(cbs, i, throwers) ==
    IF i > Len(cbs)
    THEN [invoked |-> <<>>, caught |-> <<>>, threw |-> FALSE]
    ELSE IF cbs[i] \in throwers
         THEN [invoked |-> <<cbs[i]>>, caught |-> <<>>, threw |-> TRUE]
         ELSE LET rest == EmitUncaught(cbs, i + 1, throwers) IN
              [invoked |-> <<cbs[i]>> \o rest.invoked,
               caught |-> rest.caught, threw |-> rest.threw]

\* forEach over the array emit() read: cb(payload) from index i on; the
\* callbacks in throwers throw, the catch logs and goes on.
RECURSIVE EmitFrom(_, _, _)
EmitFrom(cbs, i, throwers) ==
    IF i > Len(cbs)
    THEN [invoked |-> <<>>, caught |-> <<>>, threw |-> FALSE]
    ELSE LET rest == EmitFrom(cbs, i + 1, throwers) IN
         [invoked |-> <<cbs[i]>> \o rest.invoked,
          caught |-> IF cbs[i] \in throwers
                     THEN <<cbs[i]>> \o rest.caught ELSE rest.caught,
          threw |-> rest.threw]

BusInit ==
    /\ listeners = [e \in Events |-> <<>>]
    /\ handles = {}
    /\ unsubscribed = {}
    /\ emission = NoEmission

\* ------------------------------------------------------------- container and routing fetch
\* LocationContext.js, RouteDirections.js:64-135 and the line of HomeScreen.js
\* that renders RouteDirections (198).  Encoding:
\*   - a device fix is a number of Locs, 0 before the first fix (null); the
\*     hook's `location` and the container's currentLocation carry the same
\*     fix (HomeScreen.js:42-46);
\*   - a destination is NullDest or [place, favorite]; place is a number of
\*     Places standing for latitude and longitude, 0 when the object has
\*     neither;
\*   - a fetchKey is the pair <<fix, place>>; RouteInfo and RouteCoordinates
\*     are NoRoute (null, []) or the key of the response they were built from.
Locs == {1, 2}
Places == {1, 2}

\* At most MaxOrphans requests of unmounted instances await their response:
\* clearDestination is not offered when it would leave one more behind.
MaxOrphans == 1

\* refreshLocation calls that may be pending at once.
MaxRefresh == 2

\* The longest duration formatted, in tenths of a minute.
MaxDuration == 1300

\* Favorite toggles of the details modal that may be pending at once.
MaxToggling == 2

\* The request key followed through the lifetime of an instance.
Probe == <<1, 1>>

NullDest == [null |-> TRUE]
NoRoute == <<>>
NoKey == <<>>

\* The directions responses updateRoute is called with.
Responses == Locs \X Places

\* Arguments of updateDestination.
Dests == [place : Places, favorite : BOOLEAN]

\* How a directions request ends without a route (RouteDirections.js:98,
\* 123-127): status not OK, no routes, a payload whose fields are missing
\* (TypeError inside the try), fetch() rejected.
FailureKinds == {"status", "noRoutes", "malformed", "network"}

\* A setter call, or several committed together, is a record atom |-> value.
Apply(s, g) == [f \in DOMAIN s |-> IF f \in DOMAIN g THEN g[f] ELSE s[f]]

Merge(g, h) == [f \in DOMAIN g \cup DOMAIN h |-> IF f \in DOMAIN h THEN h[f] ELSE g[f]]

RECURSIVE MergeAll(_)
MergeAll(calls) ==
    IF Len(calls) = 1 THEN calls[1] ELSE Merge(calls[1], MergeAll(Tail(calls)))

\* `${origin.latitude},${origin.longitude}-${destination.latitude},...`
FetchKey(s) == <<s.currentLocation, s.destination.place>>

\* `{origin && dest && <RouteDirections .../>}`
Shown(s) == screen /\ s.currentLocation # 0 /\ s.destination # NullDest

\* What the fetch effect did in a render: it did not run ("none"), it
\* returned early ("skipped") or it called fetchRoute ("started").
NoEffect == "none"

\* Mutant: the effect without `if (lastFetchKeyRef.current === fetchKey) return`.
ShouldFetchAnyKey(s, k) == ~s.isFetching

\* The two early returns of the fetch effect (RouteDirections.js:73-80).
ShouldFetch(s, k) == ~s.isFetching /\ s.lastFetchKey # k

\* The fetch effect runs: fetchRoute() up to its first await.
Effect(s) ==
    LET k == FetchKey(s) IN
        IF ShouldFetch(s, k)
        THEN [s EXCEPT !.isFetching = TRUE,
                       !.lastFetchKey = k,
                       !.isLoadingRoute = TRUE,
                       !.inflight = @ (+) SetToBag({[key |-> k, live |-> TRUE]}),
                       !.effectRun = "started"]
        ELSE [s EXCEPT !.effectRun = "skipped"]

\* The requests of an unmounted instance go on; their closures hold its refs.
Orphaned(fl) ==
    LET dead == {[f EXCEPT !.live = FALSE] : f \in BagToSet(fl)} IN
    [f \in dead |-> CopiesIn(f, fl) + CopiesIn([f EXCEPT !.live = TRUE], fl)]

\* setInterval hands out the smallest id that no running timer has.
FreshTimer(running) ==
    CHOOSE id \in 1..(Cardinality(running) + 1) : id \notin running

\* Mutant: a cleanup that leaves the interval running.
CleanupKeepsTimer(s) == s

\* The cleanup of the interval effect (RouteDirections.js:55-59):
\* `if (routeCheckIntervalRef.current) clearInterval(routeCheckIntervalRef.current)`
Cleanup(s) ==
    IF s.routeCheckIntervalRef # 0
    THEN [s EXCEPT !.intervals = @ \ {s.routeCheckIntervalRef}]
    ELSE s

\* The interval effect returned a cleanup in the render that gave `before`:
\* the instance was mounted (origin and destination set) with a route.
HadCleanup(before) == before.mounted /\ before.routeCoordinates # NoRoute

\* The body of the interval effect (RouteDirections.js:36-54) in a mounted
\* instance.
Monitor(s) ==
    IF s.routeCoordinates # NoRoute
    THEN LET id == FreshTimer(s.intervals) IN
         [s EXCEPT !.intervals = @ \cup {id}, !.routeCheckIntervalRef = id]
    ELSE s

\* The interval effect of an instance that stays mounted: the old cleanup,
\* then the body.  Its dependencies are objects (routeCoordinates,
\* currentLocation, destination, origin); a run they do not call for clears
\* and sets the timer again and leaves the same state as no run.
MonitorAgain(before, a) ==
    Monitor(IF HadCleanup(before) THEN Cleanup(a) ELSE a)

\* React renders after a commit: RouteDirections is mounted with fresh refs,
\* unmounted, or re-rendered, and its fetch effect runs on mount and when a
\* dependency (a coordinate of origin or destination) changed.
Render(before, after) ==
    LET a == [after EXCEPT !.effectRun = NoEffect] IN
    IF ~Shown(a)
    THEN IF a.mounted
         THEN LET c == IF HadCleanup(before) THEN Cleanup(a) ELSE a IN
              [c EXCEPT !.mounted = FALSE,
                        !.isFetching = FALSE,
                        !.lastFetchKey = NoKey,
                        !.inflight = Orphaned(@),
                        !.probeCompleted = FALSE,
                        !.routeCheckIntervalRef = 0,
                        !.previousLocationRef = 0]
         ELSE a
    ELSE IF ~a.mounted
         THEN Effect(Monitor([a EXCEPT !.mounted = TRUE]))
         ELSE IF FetchKey(a) # FetchKey(before)
              THEN Effect(MonitorAgain(before, a))
              ELSE MonitorAgain(before, a)

\* Mutant: updateDestination that keeps the route of the old destination.
UpdateDestinationKeepsRoute(dest) ==
    << [destination |-> dest], [isLoadingRoute |-> TRUE] >>

\* Mutant: updateDestination that also ends the journey.
UpdateDestinationEndsJourney(dest) ==
    << [destination |-> dest], [routeCoordinates |-> NoRoute],
       [routeInfo |-> NoRoute], [isLoadingRoute |-> TRUE],
       [isJourneyActive |-> FALSE] >>

\* updateDestination(dest)
UpdateDestinationCalls(dest) ==
    << [destination |-> dest], [routeCoordinates |-> NoRoute],
       [routeInfo |-> NoRoute], [isLoadingRoute |-> TRUE] >>

\* Mutant: clearDestination that leaves the journey flag alone.
ClearDestinationKeepsJourney ==
    << [destination |-> NullDest], [routeCoordinates |-> NoRoute],
       [routeInfo |-> NoRoute] >>

\* clearDestination()
ClearDestinationCalls ==
    << [destination |-> NullDest], [routeCoordinates |-> NoRoute],
       [routeInfo |-> NoRoute], [isJourneyActive |-> FALSE] >>

\* startJourney()
StartJourneyCalls == << [isJourneyActive |-> TRUE] >>

\* Mutant: stopJourney doing what the "End Journey" button does
\* (HomeScreen.js:140-141).
StopJourneyClears ==
    << [isJourneyActive |-> FALSE], [destination |-> NullDest],
       [routeCoordinates |-> NoRoute], [routeInfo |-> NoRoute] >>

\* stopJourney()
StopJourneyCalls == << [isJourneyActive |-> FALSE] >>

\* updateRoute(info, coordinates)
UpdateRouteCalls(info, coordinates) ==
    << [routeInfo |-> info], [routeCoordinates |-> coordinates] >>

\* setDestinationMeta(updates): `prev ? {...prev, ...updates} : {...updates}`
MergedDestination(prev, fav) ==
    IF prev = NullDest
    THEN [place |-> 0, favorite |-> fav]
    ELSE [prev EXCEPT !.favorite = fav]

\* `finally { setIsLoadingRoute(false); isFetchingRef.current = false; }` of
\* the request f; the ref is the one of the instance that started f.
Finally(s, f) ==
    IF f.live
    THEN [isLoadingRoute |-> FALSE, isFetching |-> FALSE,
          probeCompleted |-> s.probeCompleted \/ f.key = Probe]
    ELSE [isLoadingRoute |-> FALSE]

\* Mutant: a failure handler that resets the route.
FailureCallsClearing(s, f) == << [routeInfo |-> NoRoute], Finally(s, f) >>

\* The else branch and the catch of fetchRoute, then its finally.
FailureCalls(s, f) == << Finally(s, f) >>

\* The OK branch of fetchRoute, then its finally.
SuccessCalls(s, f) == UpdateRouteCalls(f.key, f.key) \o << Finally(s, f) >>

ContainerInit ==
    /\ currentLocation = 0
    /\ destination = NullDest
    /\ routeInfo = NoRoute
    /\ routeCoordinates = NoRoute
    /\ isLoadingRoute = FALSE
    /\ isJourneyActive = FALSE
    /\ mounted = FALSE
    /\ isFetching = FALSE
    /\ lastFetchKey = NoKey
    /\ inflight = EmptyBag
    /\ pending = <<>>
    /\ call = [name |-> "init", arg |-> <<>>]
    /\ effectRun = NoEffect
    /\ probeCompleted = FALSE
    /\ intervals = {}
    /\ routeCheckIntervalRef = 0
    /\ previousLocationRef = 0
    /\ deviationSeen = 0

\* The container before anything has used it, in a build that batches.
RouteIdle == ContainerInit /\ screen = TRUE /\ batching = "automatic"

\* useUserLocation after its first render: the effect has called
\* startLocationTracking, which is suspended at the permission request.
HookInit ==
    /\ hookPc = "permission"
    /\ hookMounted = TRUE
    /\ locationSubscription = 0
    /\ headingSubAttached = FALSE
    /\ positionWatch = "none"
    /\ headingWatch = "none"
    /\ location = 0
    /\ heading = 0
    /\ errorMsg = "none"
    /\ loading = TRUE
    /\ refreshes = 0

\* The callers whose saves may overlap: DestinationSearchBar's
\* handlePlaceSelect and the handlers of HomeScreen.
Savers == {1, 2}

NotSaving == [idle |-> TRUE]

HandlersIdle ==
    /\ saving = [h \in Savers |-> NotSaving]
    /\ toggling = EmptyBag

NotFormatted == [unit |-> "none", hours |-> 0, minutes |-> 0]

HelperIdle ==
    /\ duration = 0
    /\ formatted = NotFormatted

ElsewhereIdle == HookInit /\ HandlersIdle /\ HelperIdle

\* ------------------------------------------------------------- state machine
\* `finally { if (!getAsyncStorage()) warnInstall(); }`
WarnInstall == warnings' = IF asyncStorage THEN warnings ELSE warnings + 1

\* An operation may start: the warning count of a store without backend is
\* below its bound.
CanRun == asyncStorage \/ warnings < MaxWarn

\* A rejected AsyncStorage call; the in-memory fallback never rejects.
Failures == IF asyncStorage THEN {FALSE, TRUE} ELSE {FALSE}

Done(op, arg, prev, failed, wrote, emitted) ==
    [op |-> op, arg |-> arg, prev |-> prev, failed |-> failed,
     wrote |-> wrote, emitted |-> emitted]

Init ==
    /\ asyncStorage \in BOOLEAN
    /\ stored = <<>>
    /\ now = 1
    /\ warnings = 0
    /\ last = Done("init", <<>>, <<>>, FALSE, FALSE, FALSE)
    /\ BusInit
    /\ RouteIdle
    /\ ElsewhereIdle

\* Date.now() advances.
Tick ==
    /\ now < MaxClock
    /\ now' = now + 1
    /\ UNCHANGED <<asyncStorage, stored, warnings, last, outsideStore>>

LoadSearchHistory ==
    /\ CanRun
    /\ \E failed \in Failures :
          last' = Done("load", LoadOutcome(stored, failed), stored, failed, FALSE, FALSE)
    /\ WarnInstall
    /\ UNCHANGED <<asyncStorage, stored, now, outsideStore>>

SaveSearchEntry ==
    /\ CanRun
    /\ \E entry \in EntryArgs, failed \in Failures :
          LET list == ReadList(stored) IN
          IF failed
          THEN /\ stored' = stored
               /\ last' = Done("save", <<>>, <<>>, TRUE, FALSE, FALSE)
          ELSE /\ stored' = JSONStringify(SaveResult(entry, list, now))
               /\ last' = Done("save", entry, list, FALSE, TRUE, TRUE)
    /\ WarnInstall
    /\ UNCHANGED <<asyncStorage, now, outsideStore>>

ClearSearchHistory ==
    /\ CanRun
    /\ \E failed \in Failures :
          IF failed
          THEN /\ stored' = stored
               /\ last' = Done("clear", <<>>, <<>>, TRUE, FALSE, FALSE)
          ELSE /\ stored' = <<>>
               /\ last' = Done("clear", <<>>, ReadList(stored), FALSE, TRUE, TRUE)
    /\ WarnInstall
    /\ UNCHANGED <<asyncStorage, now, outsideStore>>

RemoveSearchEntry ==
    /\ CanRun
    /\ \E matcher \in Matchers, failed \in Failures :
          LET list == ReadList(stored) IN
          IF failed
          THEN /\ stored' = stored
               /\ last' = Done("remove", <<>>, <<>>, TRUE, FALSE, FALSE)
          ELSE /\ stored' = JSONStringify(RemoveResult(matcher, list))
               /\ last' = Done("remove", matcher, list, FALSE, TRUE, TRUE)
    /\ WarnInstall
    /\ UNCHANGED <<asyncStorage, now, outsideStore>>

ToggleFavorite ==
    /\ CanRun
    /\ \E matcher \in Matchers, failed \in Failures :
          LET list == ReadList(stored)
              changed == ToggleChanged(matcher, list) IN
          IF failed
          THEN /\ stored' = stored
               /\ last' = Done("toggle", <<>>, <<>>, TRUE, FALSE, FALSE)
          ELSE /\ stored' = IF changed
                            THEN JSONStringify(ToggleResult(matcher, list))
                            ELSE stored
               /\ last' = Done("toggle", matcher, list, FALSE, changed, changed)
    /\ WarnInstall
    /\ UNCHANGED <<asyncStorage, now, outsideStore>>

Next ==
    \/ Tick
    \/ LoadSearchHistory
    \/ SaveSearchEntry
    \/ ClearSearchHistory
    \/ RemoveSearchEntry
    \/ ToggleFavorite

Spec == Init /\ [][Next]_vars

\* A store whose backend already holds a blob when the app starts: nothing,
\* or text that is not JSON.
InitPersisted ==
    /\ asyncStorage = TRUE
    /\ stored \in {<<>>, CorruptBlob}
    /\ now = 1
    /\ warnings = 0
    /\ last = Done("init", <<>>, <<>>, FALSE, FALSE, FALSE)
    /\ BusInit
    /\ RouteIdle
    /\ ElsewhereIdle

SpecPersisted == InitPersisted /\ [][Next]_vars

\* ------------------------------------------------------------- event bus
\* The store at rest: what the bus and the container leave alone.
StoreIdle ==
    /\ asyncStorage = TRUE
    /\ stored = <<>>
    /\ now = 1
    /\ warnings = 0
    /\ last = Done("init", <<>>, <<>>, FALSE, FALSE, FALSE)

InitBus == StoreIdle /\ BusInit /\ RouteIdle /\ ElsewhereIdle

\* on(event, cb): push, return the unsubscribe closure.
On ==
    \E e \in Events, cb \in Cbs :
        /\ Len(listeners[e]) < MaxListeners
        /\ listeners' = [listeners EXCEPT ![e] = Append(@, cb)]
        /\ handles' = handles \cup {<<e, cb>>}
        /\ unsubscribed' = unsubscribed \ {<<e, cb>>}
        /\ emission' = NoEmission
        /\ UNCHANGED <<storeVars, routeVars, elsewhere>>

\* The closure on() returned is called.
Unsubscribe ==
    \E h \in handles :
        /\ listeners' = [listeners EXCEPT ![h[1]] = Without(@, h[2])]
        /\ unsubscribed' = unsubscribed \cup {h}
        /\ emission' = NoEmission
        /\ UNCHANGED <<storeVars, routeVars, elsewhere, handles>>

\* off(event, cb)
Off ==
    \E e \in Events, cb \in Cbs :
        /\ listeners' = [listeners EXCEPT ![e] = Without(@, cb)]
        /\ unsubscribed' = unsubscribed \cup {<<e, cb>>}
        /\ emission' = NoEmission
        /\ UNCHANGED <<storeVars, routeVars, elsewhere, handles>>

Registered(e) == {listeners[e][i] : i \in 1..Len(listeners[e])}

\* emit(event, payload) with the callbacks of throwers throwing.
Emit ==
    \E e \in Events : \E throwers \in SUBSET Registered(e) :
        LET res == EmitFrom(listeners[e], 1, throwers) IN
        /\ emission' = [event |-> e, throwers |-> throwers,
                        invoked |-> res.invoked, caught |-> res.caught,
                        threw |-> res.threw]
        /\ UNCHANGED <<storeVars, routeVars, elsewhere, listeners, handles, unsubscribed>>

NextBus ==
    \/ On
    \/ Unsubscribe
    \/ Off
    \/ Emit

SpecBus == InitBus /\ [][NextBus]_vars

\* ------------------------------------------------------------- container and routing fetch
\* The state the handlers and the render work on.
Current ==
    [currentLocation |-> currentLocation, destination |-> destination,
     routeInfo |-> routeInfo, routeCoordinates |-> routeCoordinates,
     isLoadingRoute |-> isLoadingRoute, isJourneyActive |-> isJourneyActive,
     mounted |-> mounted, isFetching |-> isFetching,
     lastFetchKey |-> lastFetchKey, inflight |-> inflight,
     effectRun |-> effectRun, probeCompleted |-> probeCompleted,
     intervals |-> intervals, routeCheckIntervalRef |-> routeCheckIntervalRef,
     previousLocationRef |-> previousLocationRef]

Becomes(s) ==
    /\ currentLocation' = s.currentLocation
    /\ destination' = s.destination
    /\ routeInfo' = s.routeInfo
    /\ routeCoordinates' = s.routeCoordinates
    /\ isLoadingRoute' = s.isLoadingRoute
    /\ isJourneyActive' = s.isJourneyActive
    /\ mounted' = s.mounted
    /\ isFetching' = s.isFetching
    /\ lastFetchKey' = s.lastFetchKey
    /\ inflight' = s.inflight
    /\ effectRun' = s.effectRun
    /\ probeCompleted' = s.probeCompleted
    /\ intervals' = s.intervals
    /\ routeCheckIntervalRef' = s.routeCheckIntervalRef
    /\ previousLocationRef' = s.previousLocationRef

\* A React root batches the setter calls of one event handler; a legacy root
\* (React 17 and earlier, React Native without its new architecture) renders
\* after every setter called from a timer, a promise or an await continuation.
Unbatched(fromHandler) == batching = "legacy" /\ ~fromHandler

\* The handler named name runs its setter calls on s.
Run(name, arg, s, calls, fromHandler) ==
    /\ pending = <<>>
    /\ call' = [name |-> name, arg |-> arg]
    /\ \E before \in {Current}, from \in {s}, cs \in {calls} :
       \E commit \in {IF Unbatched(fromHandler) THEN cs[1] ELSE MergeAll(cs)} :
       \E after \in {Apply(from, commit)} :
       \E t \in {Render(before, after)} :
          /\ Becomes(t)
          /\ pending' = IF Unbatched(fromHandler) THEN Tail(cs) ELSE <<>>
    /\ UNCHANGED <<storeVars, busVars, elsewhere, batching, screen, deviationSeen>>

\* The requests started by instances that are gone.
Orphans == BagCardinality(inflight) - (IF isFetching THEN 1 ELSE 0)

MayUnmount == ~isFetching \/ Orphans < MaxOrphans

\* The location hook delivers a fix; HomeScreen passes it on.
UpdateCurrentLocation ==
    /\ \E l \in Locs :
          Run("updateCurrentLocation", l, Current, << [currentLocation |-> l] >>, FALSE)

UpdateDestination ==
    /\ \E dest \in Dests, fromHandler \in BOOLEAN :
          Run("updateDestination", dest, Current, UpdateDestinationCalls(dest), fromHandler)

SetDestinationMeta ==
    /\ \E fav \in BOOLEAN :
          Run("setDestinationMeta", fav, Current,
              << [destination |-> MergedDestination(destination, fav)] >>, FALSE)

ClearDestination ==
    /\ MayUnmount
    /\ \E fromHandler \in BOOLEAN :
        Run("clearDestination", [journeyWas |-> isJourneyActive], Current,
            ClearDestinationCalls, fromHandler)

StartJourney ==
    Run("startJourney", <<>>, Current, StartJourneyCalls, TRUE)

StopJourney ==
    Run("stopJourney", <<>>, Current, StopJourneyCalls, TRUE)

\* updateRoute called with the info and the points of the response r.
UpdateRoute ==
    \E r \in Responses, fromHandler \in BOOLEAN :
        Run("updateRoute", r, Current, UpdateRouteCalls(r, r), fromHandler)

\* The setter the provider hands out as it is.
SetIsLoadingRoute ==
    \E b \in BOOLEAN :
        Run("setIsLoadingRoute", b, Current, << [isLoadingRoute |-> b] >>, TRUE)

\* A directions response with a route arrives.
FetchSucceeds ==
    \E f \in BagToSet(inflight) :
        \E s \in {[Current EXCEPT !.inflight = @ (-) SetToBag({f})]} :
            Run("fetchSucceeded", [live |-> f.live], s, SuccessCalls(s, f), FALSE)

\* A directions request ends without a route.
FetchFails ==
    \E f \in BagToSet(inflight), kind \in FailureKinds :
        \E s \in {[Current EXCEPT !.inflight = @ (-) SetToBag({f})]} :
            Run("fetchFailed", [live |-> f.live, kind |-> kind],
                s, FailureCalls(s, f), FALSE)

\* The running handler makes its next setter call.
CommitNext ==
    /\ pending # <<>>
    /\ \E before \in {Current} :
       \E after \in {Apply(before, Head(pending))} :
       \E t \in {Render(before, after)} : Becomes(t)
    /\ pending' = Tail(pending)
    /\ UNCHANGED <<storeVars, busVars, elsewhere, batching, screen, call, deviationSeen>>

\* The provider alone, its operations called in any order by any consumer.
InitContainer ==
    /\ StoreIdle
    /\ BusInit
    /\ ContainerInit
    /\ screen = FALSE
    /\ batching \in {"automatic", "legacy"}
    /\ ElsewhereIdle

NextContainer ==
    \/ UpdateCurrentLocation
    \/ UpdateDestination
    \/ SetDestinationMeta
    \/ ClearDestination
    \/ StartJourney
    \/ StopJourney
    \/ UpdateRoute
    \/ SetIsLoadingRoute
    \/ CommitNext

SpecContainer == InitContainer /\ [][NextContainer]_vars

\* The provider with HomeScreen and its RouteDirections; the journey flag,
\* which the routing fetch neither reads nor writes, stays as it is.
InitRoute ==
    /\ StoreIdle
    /\ BusInit
    /\ ContainerInit
    /\ screen = TRUE
    /\ batching \in {"automatic", "legacy"}
    /\ ElsewhereIdle

NextRoute ==
    \/ UpdateCurrentLocation
    \/ UpdateDestination
    \/ SetDestinationMeta
    \/ ClearDestination
    \/ FetchSucceeds
    \/ FetchFails
    \/ CommitNext

SpecRoute == InitRoute /\ [][NextRoute]_vars


\* hasDeviatedFromRoute(userLocation, routeCoordinates, 0.05): the smallest
\* distance from the fix to a point of the route is over the threshold.  The
\* fixes of Locs lie more than 0.05 km from each other, and the route of a
\* response passes, of these fixes, its own origin only.
RoutePoints(coordinates) == {coordinates[1]}

DistanceOverThreshold(l, point) == l # point

hasDeviatedFromRoute(userLocation, coordinates) ==
    IF userLocation = 0 \/ coordinates = NoRoute
    THEN FALSE
    ELSE \A point \in RoutePoints(coordinates) :
             DistanceOverThreshold(userLocation, point)

\* The interval callback runs (RouteDirections.js:37-53): when the fix has
\* deviated and an earlier check left a previous fix, it logs
\* "Recalculating..." and does nothing else; then it stores the fix.  The
\* effect is re-run whenever currentLocation or routeCoordinates change, so
\* the callback of the running timer has closed over the current values.
DeviationCheck ==
    /\ pending = <<>>
    /\ intervals # {}
    /\ currentLocation # 0
    /\ deviationSeen' =
           IF /\ hasDeviatedFromRoute(currentLocation, routeCoordinates)
              /\ previousLocationRef # 0
           THEN currentLocation
           ELSE 0
    /\ previousLocationRef' = currentLocation
    /\ UNCHANGED <<storeVars, busVars, elsewhere, currentLocation, destination,
                   routeInfo, routeCoordinates, isLoadingRoute,
                   isJourneyActive, screen, mounted, isFetching, lastFetchKey,
                   inflight, pending, batching, call, effectRun,
                   probeCompleted, intervals, routeCheckIntervalRef>>

\* HomeScreen with its RouteDirections and the 10 s timer of the deviation
\* check.  The timer fires as long as it runs and every directions request
\* gets its response; the user is free to do nothing.
InitMonitor ==
    /\ StoreIdle
    /\ BusInit
    /\ RouteIdle
    /\ ElsewhereIdle

NextMonitor ==
    \/ UpdateCurrentLocation
    \/ UpdateDestination
    \/ ClearDestination
    \/ FetchSucceeds
    \/ FetchFails
    \/ DeviationCheck

SpecMonitor ==
    /\ InitMonitor
    /\ [][NextMonitor]_vars
    /\ WF_vars(DeviationCheck)
    /\ WF_vars(FetchSucceeds \/ FetchFails)


\* ------------------------------------------------------------- location hook
Headings == {0, 1}

\* A state setter of the hook; React drops the update of an unmounted
\* component.
SetState(value, current) == IF hookMounted THEN value ELSE current

\* The outer catch of startLocationTracking (part_001:76-79).
Caught ==
    /\ errorMsg' = SetState("error", errorMsg)
    /\ loading' = SetState(FALSE, loading)
    /\ hookPc' = "done"

\* requestForegroundPermissionsAsync settles (part_001:26-32).
PermissionResolves ==
    /\ hookPc = "permission"
    /\ \E status \in {"granted", "denied", "rejected"} :
        CASE status = "granted" ->
                 /\ hookPc' = "fix"
                 /\ UNCHANGED <<errorMsg, loading>>
          [] status = "denied" ->
                 /\ errorMsg' = SetState("denied", errorMsg)
                 /\ loading' = SetState(FALSE, loading)
                 /\ hookPc' = "done"
          [] OTHER -> Caught
    /\ UNCHANGED <<hookMounted, locationSubscription, headingSubAttached,
                   positionWatch, headingWatch, location, heading>>
    /\ UNCHANGED <<storeVars, busVars, routeVars, handlerVars, helperVars, refreshes>>

\* getCurrentPositionAsync settles (part_001:35-44).
InitialFixResolves ==
    /\ hookPc = "fix"
    /\ \/ \E l \in Locs :
             /\ location' = SetState(l, location)
             /\ hookPc' = "watch"
             /\ UNCHANGED <<errorMsg, loading>>
       \/ Caught /\ UNCHANGED location
    /\ UNCHANGED <<hookMounted, locationSubscription, headingSubAttached,
                   positionWatch, headingWatch, heading>>
    /\ UNCHANGED <<storeVars, busVars, routeVars, handlerVars, helperVars, refreshes>>

\* watchPositionAsync settles (part_001:47-61): the device subscription
\* exists from here on and the effect's variable holds it.
WatchPositionResolves ==
    /\ hookPc = "watch"
    /\ \/ /\ positionWatch' = "active"
          /\ locationSubscription' = 1
          /\ hookPc' = "heading"
          /\ UNCHANGED <<errorMsg, loading>>
       \/ Caught /\ UNCHANGED <<positionWatch, locationSubscription>>
    /\ UNCHANGED <<hookMounted, headingSubAttached, headingWatch, location,
                   heading>>
    /\ UNCHANGED <<storeVars, busVars, routeVars, handlerVars, helperVars, refreshes>>

\* watchHeadingAsync settles (part_001:64-75); a rejection is ignored.
WatchHeadingResolves ==
    /\ hookPc = "heading"
    /\ \/ /\ headingWatch' = "active"
          /\ headingSubAttached' = (locationSubscription # 0)
       \/ UNCHANGED <<headingWatch, headingSubAttached>>
    /\ loading' = SetState(FALSE, loading)
    /\ hookPc' = "done"
    /\ UNCHANGED <<hookMounted, locationSubscription, positionWatch, location,
                   heading, errorMsg>>
    /\ UNCHANGED <<storeVars, busVars, routeVars, handlerVars, helperVars, refreshes>>

\* The device reports a position to the watchPositionAsync callback.
PositionUpdate ==
    /\ positionWatch = "active"
    /\ \E l \in Locs : location' = SetState(l, location)
    /\ UNCHANGED <<hookPc, hookMounted, locationSubscription,
                   headingSubAttached, positionWatch, headingWatch, heading,
                   errorMsg, loading>>
    /\ UNCHANGED <<storeVars, busVars, routeVars, handlerVars, helperVars, refreshes>>

\* The device reports a heading to the watchHeadingAsync callback.
HeadingUpdate ==
    /\ headingWatch = "active"
    /\ \E deg \in Headings : heading' = SetState(deg, heading)
    /\ UNCHANGED <<hookPc, hookMounted, locationSubscription,
                   headingSubAttached, positionWatch, headingWatch, location,
                   errorMsg, loading>>
    /\ UNCHANGED <<storeVars, busVars, routeVars, handlerVars, helperVars, refreshes>>

\* The component unmounts: the effect's cleanup runs (part_001:85-90) with
\* what the effect's variable holds at this moment.
HookUnmount ==
    /\ hookMounted
    /\ hookMounted' = FALSE
    /\ positionWatch' =
           IF locationSubscription # 0 THEN "removed" ELSE positionWatch
    /\ headingWatch' =
           IF locationSubscription # 0 /\ headingSubAttached
           THEN "removed"
           ELSE headingWatch
    /\ UNCHANGED <<hookPc, locationSubscription, headingSubAttached, location,
                   heading, errorMsg, loading>>
    /\ UNCHANGED <<storeVars, busVars, routeVars, handlerVars, helperVars, refreshes>>

\* refreshLocation is called (part_001:96-98).
RefreshLocation ==
    /\ hookMounted
    /\ refreshes < MaxRefresh
    /\ refreshes' = refreshes + 1
    /\ loading' = TRUE
    /\ UNCHANGED <<hookPc, hookMounted, locationSubscription,
                   headingSubAttached, positionWatch, headingWatch, location,
                   heading, errorMsg>>
    /\ UNCHANGED <<storeVars, busVars, routeVars, handlerVars, helperVars>>

\* The getCurrentPositionAsync of a refreshLocation settles
\* (part_001:99-112).
RefreshResolves ==
    /\ refreshes > 0
    /\ refreshes' = refreshes - 1
    /\ \/ \E l \in Locs :
             /\ location' = SetState(l, location)
             /\ UNCHANGED errorMsg
       \/ /\ errorMsg' = SetState("refresh", errorMsg)
          /\ UNCHANGED location
    /\ loading' = SetState(FALSE, loading)
    /\ UNCHANGED <<hookPc, hookMounted, locationSubscription,
                   headingSubAttached, positionWatch, headingWatch, heading>>
    /\ UNCHANGED <<storeVars, busVars, routeVars, handlerVars, helperVars>>

InitHook ==
    /\ StoreIdle
    /\ BusInit
    /\ RouteIdle
    /\ HookInit
    /\ HandlersIdle
    /\ HelperIdle

NextHook ==
    \/ PermissionResolves
    \/ InitialFixResolves
    \/ WatchPositionResolves
    \/ WatchHeadingResolves
    \/ PositionUpdate
    \/ HeadingUpdate
    \/ HookUnmount
    \/ RefreshLocation
    \/ RefreshResolves

SpecHook == InitHook /\ [][NextHook]_vars


\* ------------------------------------------------------------- overlapping saves
\* What the callers pass for the place p: its coordinates, with or without
\* its placeId, no favorite flag.
Place(p, id) == [placeId |-> id, latitude |-> 1, longitude |-> p, favorite |-> "omit"]

PlaceArgs == UNION {{Place(p, 0), Place(p, p)} : p \in Places} \cap EntryArgs

\* `await AsyncStorage.getItem(SEARCH_KEY)` of a saveSearchEntry is served
\* (eventBus.js:90-98): the caller holds the list it read while other
\* handlers run.
SaveReads ==
    /\ \E h \in Savers, entry \in PlaceArgs :
          /\ saving[h] = NotSaving
          /\ saving' = [saving EXCEPT ![h] = [entry |-> entry, list |-> ReadList(stored)]]
    /\ UNCHANGED <<storeVars, busVars, routeVars, hookVars, helperVars, toggling>>

\* The rest of that saveSearchEntry (eventBus.js:100-140): the new list is
\* computed from the list read and written; `failed`: setItem rejects.
SaveWrites ==
    /\ \E h \in Savers, failed \in Failures :
          /\ saving[h] # NotSaving
          /\ saving' = [saving EXCEPT ![h] = NotSaving]
          /\ IF failed
             THEN /\ stored' = stored
                  /\ last' = Done("save", <<>>, <<>>, TRUE, FALSE, FALSE)
             ELSE /\ stored' = JSONStringify(SaveResult(saving[h].entry, saving[h].list, now))
                  /\ last' = Done("save", saving[h].entry, saving[h].list, FALSE, TRUE, TRUE)
    /\ WarnInstall
    /\ UNCHANGED <<asyncStorage, now, busVars, routeVars, hookVars, helperVars, toggling>>

InitOverlap ==
    /\ StoreIdle
    /\ BusInit
    /\ RouteIdle
    /\ ElsewhereIdle

NextOverlap ==
    \/ Tick
    \/ SaveReads
    \/ SaveWrites

SpecOverlap == InitOverlap /\ [][NextOverlap]_vars


\* ------------------------------------------------------------- details modal
\* The destinations the callers of updateDestination build for the place p.
\* A search result, a history row and a named map tap carry neither placeId
\* nor favorite (HomeScreen.js:87-93, 237-244, 261-266; SearchHistoryModal.js
\* :102 passes no favorite); a clicked point of interest carries
\* `favorite: false` and its placeId if the lookup gave one
\* (MapViewContainer.js:168-196); a favorite marker carries the item's
\* placeId and `favorite: true` (MapViewContainer.js:222-230).
Listed(p) == [place |-> p, favorite |-> FALSE, placeId |-> 0]

PointOfInterest(p) == [place |-> p, favorite |-> FALSE, placeId |-> p]

Marker(p, id) == [place |-> p, favorite |-> TRUE, placeId |-> id]

\* The favorite markers on the map: the stored favorites, except one at the
\* coordinates of the destination (MapViewContainer.js:205-208).
Markers ==
    LET list == ReadList(stored)
        shown == {i \in 1..Len(list) :
                     /\ list[i].favorite
                     /\ destination = NullDest \/ destination.place # list[i].longitude}
    IN  {Marker(list[i].longitude, list[i].placeId) : i \in shown}

\* A place is chosen on the screen.
SelectPlace ==
    \E dest \in {Listed(p) : p \in Places} \cup {PointOfInterest(p) : p \in Places} \cup Markers :
        Run("updateDestination", dest, Current, UpdateDestinationCalls(dest), TRUE)

\* handleToggleFavorite's matcher (LocationDetailsModal.js:103-105); a
\* destination without coordinates matches nothing.
DestinationMatcher(dest) ==
    IF dest.place = 0
    THEN [fn |-> "none", timestamp |-> 0, placeId |-> 0, latitude |-> 0, longitude |-> 0]
    ELSE IF dest.placeId # 0
         THEN [fn |-> "none", timestamp |-> 0, placeId |-> dest.placeId,
               latitude |-> 0, longitude |-> 0]
         ELSE [fn |-> "none", timestamp |-> 0, placeId |-> 0,
               latitude |-> 1, longitude |-> dest.place]

\* The star of the details modal is pressed (LocationDetailsModal.js:99-106):
\* the handler builds its matcher from the destination of its render, calls
\* toggleFavorite and waits.
ToggleBegins ==
    /\ pending = <<>>
    /\ destination # NullDest
    /\ BagCardinality(toggling) < MaxToggling
    /\ toggling' = toggling (+) SetToBag({[favorite |-> destination.favorite,
                                            matcher |-> DestinationMatcher(destination)]})
    /\ UNCHANGED <<storeVars, busVars, routeVars, hookVars, helperVars, saving>>

\* toggleFavorite does its work on the store (eventBus.js:199-233; taken as
\* one step here, overlapping store operations being the matter of
\* SpecOverlap) and the handler goes on (LocationDetailsModal.js:107-108).
\* toggleFavorite catches a rejected storage call itself, so the handler
\* reaches setDestinationMeta either way.
ToggleEnds ==
    /\ pending = <<>>
    /\ \E t \in BagToSet(toggling), failed \in Failures :
          /\ toggling' = toggling (-) SetToBag({t})
          /\ \E list \in {ReadList(stored)} :
             \E changed \in {ToggleChanged(t.matcher, list)} :
                IF failed
                THEN /\ stored' = stored
                     /\ last' = Done("toggle", <<>>, <<>>, TRUE, FALSE, FALSE)
                ELSE /\ stored' = IF changed
                                  THEN JSONStringify(ToggleResult(t.matcher, list))
                                  ELSE stored
                     /\ last' = Done("toggle", t.matcher, list, FALSE, changed, changed)
          /\ call' = [name |-> "handleToggleFavorite", arg |-> t.favorite]
          /\ \E before \in {Current} :
             \E after \in {Apply(before, [destination |-> MergedDestination(destination, ~t.favorite)])} :
             \E r \in {Render(before, after)} : Becomes(r)
    /\ WarnInstall
    /\ UNCHANGED <<asyncStorage, now, busVars, hookVars, helperVars, saving, pending,
                   batching, screen, deviationSeen>>

\* A saveSearchEntry of one of the callers runs from its read to its write.
SavePlace ==
    /\ \E entry \in PlaceArgs, failed \in Failures :
          LET list == ReadList(stored) IN
          IF failed
          THEN /\ stored' = stored
               /\ last' = Done("save", <<>>, <<>>, TRUE, FALSE, FALSE)
          ELSE /\ stored' = JSONStringify(SaveResult(entry, list, now))
               /\ last' = Done("save", entry, list, FALSE, TRUE, TRUE)
    /\ WarnInstall
    /\ UNCHANGED <<asyncStorage, now, outsideStore>>

\* The provider, the details modal and the store behind it.
InitDetails ==
    /\ StoreIdle
    /\ BusInit
    /\ ContainerInit
    /\ screen = FALSE
    /\ batching = "automatic"
    /\ ElsewhereIdle

NextDetails ==
    \/ SelectPlace
    \/ ClearDestination
    \/ SavePlace
    \/ ToggleBegins
    \/ ToggleEnds

SpecDetails == InitDetails /\ [][NextDetails]_vars


\* ------------------------------------------------------------- formatDuration
\* Durations are counted in tenths of a minute.
Tenths == 10

\* Math.round of t tenths: the nearest integer, a half rounded up.
MathRound(t) == (t + Tenths \div 2) \div Tenths

\* Math.floor of t tenths.
MathFloor(t) == t \div Tenths

\* formatDuration (mapHelpers.js:78-85): `${minutes} min` below 60, else
\* `${hours}h ${minutes}m`; the record holds the numbers of the string.
formatDuration(t) ==
    IF t < 60 * Tenths
    THEN [unit |-> "min", hours |-> 0, minutes |-> MathRound(t)]
    ELSE [unit |-> "hm",
          hours |-> MathFloor(t \div 60),
          minutes |-> MathRound(t % (60 * Tenths))]

\* formatDuration is called with the duration.
Format ==
    /\ formatted = NotFormatted
    /\ formatted' = formatDuration(duration)
    /\ UNCHANGED <<storeVars, busVars, routeVars, hookVars, handlerVars, duration>>

InitFormat ==
    /\ StoreIdle
    /\ BusInit
    /\ RouteIdle
    /\ HookInit
    /\ HandlersIdle
    /\ duration \in 0..MaxDuration
    /\ formatted = NotFormatted

SpecFormat == InitFormat /\ [][Format]_vars

\* The list a load() would return now.
History == ReadList(stored)

\* ------------------------------------------------------------- claims
\* The operation completed last was a successful op.
Completed(op) == last.op = op /\ ~last.failed

\* The uniqueness key of the specification: placeId if present, else the
\* coordinate pair.
Key(e) ==
    IF e.placeId # 0
    THEN <<"placeId", e.placeId, 0>>
    ELSE <<"latlng", e.latitude, e.longitude>>

\* The entries of a list that carry placeId p.
WithPlaceId(list, p) == {i \in 1..Len(list) : list[i].placeId = p}

\* C1: the stored list never holds two entries with the same placeId, nor
\* two entries without placeId at exactly the same coordinates.
C1_UniqueKeys ==
    \A i, j \in 1..Len(History) :
        i < j =>
            /\ ~(History[i].placeId # 0 /\ History[i].placeId = History[j].placeId)
            /\ ~(/\ History[i].placeId = 0
                 /\ History[j].placeId = 0
                 /\ History[i].latitude = History[j].latitude
                 /\ History[i].longitude = History[j].longitude)

\* C1 witness: a save of a key already stored (no placeId, same coordinates)
\* has completed and the list holds several entries.
C1_Witness ==
    /\ Completed("save")
    /\ last.arg.placeId = 0
    /\ \E i \in 1..Len(last.prev) : Key(last.prev[i]) = Key(last.arg)
    /\ Len(History) >= 2

\* C2 (as claimed): after save(E) of an entry whose placeId is already
\* stored, exactly one stored entry has that placeId, and when E omits
\* favorite that entry's favorite is the one of the prior entry with that
\* placeId.
C2_SamePlaceIdKeepsFavorite ==
    (/\ Completed("save")
     /\ last.arg.placeId # 0
     /\ WithPlaceId(last.prev, last.arg.placeId) # {})
    => /\ Cardinality(WithPlaceId(History, last.arg.placeId)) = 1
       /\ last.arg.favorite = "omit" =>
            \A i \in WithPlaceId(History, last.arg.placeId),
               j \in WithPlaceId(last.prev, last.arg.placeId) :
                 History[i].favorite = last.prev[j].favorite

\* C3 (as claimed): when save(entry) matches an existing entry and the
\* caller's entry sets favorite explicitly, the stored favorite is the
\* caller's value; when it omits favorite, the existing one is carried over.
C3_CallerFavoriteWins ==
    (/\ Completed("save")
     /\ FindExisting(last.prev, last.arg) # 0
     /\ Len(History) >= 1
     /\ SameKey(last.arg, History[1]))
    => History[1].favorite =
         IF last.arg.favorite = "omit"
         THEN last.prev[FindExisting(last.prev, last.arg)].favorite
         ELSE last.arg.favorite = "true"

\* C3 (amended): when save(entry) matches an existing entry, the favorite
\* written is the disjunction of the first match's favorite and the caller's:
\* if either is true the saved entry is stored first as a favorite (an
\* explicit false does not clear it), otherwise no stored entry matching the
\* saved one is a favorite.
C3_FavoriteIsDisjunction ==
    (Completed("save") /\ FindExisting(last.prev, last.arg) # 0)
    => IF \/ last.prev[FindExisting(last.prev, last.arg)].favorite
          \/ last.arg.favorite = "true"
       THEN /\ Len(History) >= 1
            /\ SameKey(last.arg, History[1])
            /\ History[1].placeId = last.arg.placeId
            /\ History[1].favorite
       ELSE \A i \in 1..Len(History) :
               SameKey(last.arg, History[i]) => ~History[i].favorite

\* C3 witness: a favorite was re-saved with an explicit favorite: false.
C3_Witness ==
    /\ Completed("save")
    /\ FindExisting(last.prev, last.arg) # 0
    /\ last.prev[FindExisting(last.prev, last.arg)].favorite
    /\ last.arg.favorite = "false"
    /\ History[1].favorite

\* An entry of the list read by the last save that the save neither matched
\* (deduplicated) nor kept: it was evicted for capacity.
Evicted(i) ==
    /\ ~SameKey(last.arg, last.prev[i])
    /\ \A k \in 1..Len(History) : History[k] # last.prev[i]

\* An entry of the list read by the last save that is still stored.
Retained(j) ==
    /\ ~SameKey(last.arg, last.prev[j])
    /\ \E k \in 1..Len(History) : History[k] = last.prev[j]

C5_WithinCapOrAllFavorites ==
    Completed("save") =>
        \/ Len(History) <= STORAGE_CAP
        \/ \A i \in 1..Len(History) : History[i].favorite

\* C5 witness: a save found a list over the cap holding a non-favorite (left
\* so by toggleFavorite) and has brought it back within the cap.
C5_Witness ==
    /\ Completed("save")
    /\ Len(last.prev) > STORAGE_CAP
    /\ \E i \in 1..Len(last.prev) : ~last.prev[i].favorite
    /\ Len(History) <= STORAGE_CAP

\* C6 (as claimed): after a completed save the saved entry is the first
\* element of the stored list.
C6_SavedEntryIsFirst ==
    Completed("save") =>
        /\ Len(History) >= 1
        /\ History[1].placeId = last.arg.placeId
        /\ History[1].latitude = last.arg.latitude
        /\ History[1].longitude = last.arg.longitude

\* C7: the stored timestamps are non-increasing from the front to the tail.
C7_MostRecentFirst ==
    \A i, j \in 1..Len(History) :
        i < j => History[i].timestamp >= History[j].timestamp

\* C7 witness: entries saved at different times are stored, and the last
\* operation removed or toggled one of several.
C7_Witness ==
    /\ last.op \in {"remove", "toggle"}
    /\ ~last.failed
    /\ last.wrote
    /\ Len(History) >= 2
    /\ History[1].timestamp > History[Len(History)].timestamp

\* What the specification calls satisfying a matcher: the predicate holds,
\* or the timestamp, the placeId or the coordinate pair is equal.
Satisfies(m, e) ==
    \/ m.fn = "isFavorite" /\ e.favorite
    \/ m.fn = "noPlaceId" /\ e.placeId = 0
    \/ m.fn = "none" /\ m.timestamp # 0 /\ m.timestamp = e.timestamp
    \/ m.fn = "none" /\ m.placeId # 0 /\ m.placeId = e.placeId
    \/ m.fn = "none" /\ m.latitude # 0 /\ m.longitude # 0
       /\ m.latitude = e.latitude /\ m.longitude = e.longitude

\* C8: toggleFavorite flips exactly the matching entries in place, and
\* writes and notifies if and only if some entry matched.
C8_ToggleFlipsMatches ==
    Completed("toggle") =>
        /\ Len(History) = Len(last.prev)
        /\ \A i \in 1..Len(last.prev) :
              History[i] = IF Satisfies(last.arg, last.prev[i])
                           THEN [last.prev[i] EXCEPT !.favorite = ~last.prev[i].favorite]
                           ELSE last.prev[i]
        /\ last.emitted <=> \E i \in 1..Len(last.prev) : Satisfies(last.arg, last.prev[i])
        /\ last.wrote <=> \E i \in 1..Len(last.prev) : Satisfies(last.arg, last.prev[i])

\* C8 witness: a toggle un-favorited one entry and left another one alone.
C8_Witness ==
    /\ Completed("toggle")
    /\ last.emitted
    /\ \E i, j \in 1..Len(last.prev) :
          /\ Satisfies(last.arg, last.prev[i])
          /\ last.prev[i].favorite
          /\ ~History[i].favorite
          /\ ~Satisfies(last.arg, last.prev[j])

\* C9: remove deletes exactly the matching entries, keeps the others in
\* order, and notifies.
C9_RemoveDeletesMatches ==
    Completed("remove") =>
        /\ History = SelectSeq(last.prev, LAMBDA e : ~Satisfies(last.arg, e))
        /\ last.emitted

\* C9 witness: a remove deleted two entries at once and kept a third.
C9_Witness ==
    /\ Completed("remove")
    /\ Len(History) >= 1
    /\ Len(last.prev) >= Len(History) + 2

\* C10 (as claimed): without a storage backend no operation fails and the
\* missing-storage warning is logged at most once.
C10_WarnsOnce ==
    ~asyncStorage => (~last.failed /\ warnings <= 1)

\* C11: load never throws; it returns the empty list when the blob is
\* absent, when the read fails and when the blob is not JSON, the stored
\* list otherwise; and it leaves the blob as it was.
C11_LoadNeverThrows ==
    last.op = "load" =>
        /\ ~last.arg.threw
        /\ stored = last.prev
        /\ (last.failed \/ last.prev = <<>> \/ last.prev = CorruptBlob)
           => last.arg.value = <<>>
        /\ (~last.failed /\ last.prev # <<>> /\ last.prev # CorruptBlob)
           => last.arg.value = last.prev[1]

\* C11 witness: a load of a blob that is not JSON has returned.
C11_Witness ==
    /\ last.op = "load"
    /\ ~last.failed
    /\ last.prev = CorruptBlob
    /\ last.arg.value = <<>>

\* C12: emit(event) invokes every callback subscribed to the event at that
\* moment, in subscription order; a throwing callback is caught and logged,
\* nothing propagates to the emitter and the callbacks after it still run;
\* a callback unsubscribed before the emission is not invoked.
C12_EmitInvokesAllSwallowsErrors ==
    emission.event # "none" =>
        /\ emission.invoked = listeners[emission.event]
        /\ ~emission.threw
        /\ emission.caught = SelectSeq(emission.invoked,
                                       LAMBDA cb : cb \in emission.throwers)
        /\ \A h \in unsubscribed :
              h[1] = emission.event =>
                  \A i \in 1..Len(emission.invoked) : emission.invoked[i] # h[2]

\* C12 witness: the first of two subscribers threw, the second still ran,
\* and a third callback, unsubscribed earlier, did not.
C12_Witness ==
    /\ emission.event # "none"
    /\ Len(emission.invoked) = 2
    /\ emission.invoked[1] # emission.invoked[2]
    /\ emission.invoked[1] \in emission.throwers
    /\ \E h \in unsubscribed \cap handles : h[1] = emission.event

C14_ClearDestinationClearsAll ==
    (call.name = "clearDestination" /\ pending = <<>>) =>
        /\ destination = NullDest
        /\ routeInfo = NoRoute
        /\ routeCoordinates = NoRoute
        /\ ~isJourneyActive

\* C14 witness: clearDestination has run during an active journey.
C14_Witness ==
    /\ call.name = "clearDestination"
    /\ pending = <<>>
    /\ call.arg.journeyWas
    /\ destination = NullDest
    /\ currentLocation # 0

\* C15 (as claimed): in every state RouteInfo and RouteCoordinates come
\* from the same directions response, or both are empty.
C15_RouteSwappedTogether == routeInfo = routeCoordinates

\* C16 (as claimed): isJourneyActive changes only in a step of startJourney
\* or stopJourney.
C16_OnlyStartStopChangeJourney ==
    [][isJourneyActive' # isJourneyActive =>
          call'.name \in {"startJourney", "stopJourney"}]_vars

\* C16 (amended): isJourneyActive changes only in a step of startJourney,
\* of stopJourney or of clearDestination, and clearDestination can only
\* turn it off; updateCurrentLocation, updateDestination,
\* setDestinationMeta, updateRoute and setIsLoadingRoute leave it as it is.
C16_OnlyStartStopClearChangeJourney ==
    [][isJourneyActive' # isJourneyActive =>
          \/ call'.name \in {"startJourney", "stopJourney"}
          \/ call'.name = "clearDestination" /\ ~isJourneyActive']_vars

\* C16 witness: a route was set during an active journey and the journey
\* is still active.
C16_Witness ==
    /\ call.name = "updateRoute"
    /\ pending = <<>>
    /\ isJourneyActive
    /\ destination # NullDest

\* C17: startJourney sets isJourneyActive, stopJourney resets it, and both
\* leave destination, RouteInfo, RouteCoordinates, the loading flag and the
\* current location unchanged.
C17_JourneyTogglesFlagOnly ==
    [][call'.name \in {"startJourney", "stopJourney"} =>
          /\ isJourneyActive' = (call'.name = "startJourney")
          /\ destination' = destination
          /\ routeInfo' = routeInfo
          /\ routeCoordinates' = routeCoordinates
          /\ isLoadingRoute' = isLoadingRoute
          /\ currentLocation' = currentLocation]_vars

\* C17 witness: stopJourney has run and destination and route are in place.
C17_Witness ==
    /\ call.name = "stopJourney"
    /\ ~isJourneyActive
    /\ destination # NullDest
    /\ routeInfo # NoRoute
    /\ routeCoordinates # NoRoute

\* The requests for the key of f that await their response.
InFlightFor(f) ==
    CopiesIn([f EXCEPT !.live = TRUE], inflight)
        + CopiesIn([f EXCEPT !.live = FALSE], inflight)

\* C18 (as claimed): at no time do two directions requests for the same
\* key await their response: the fetch is invoked once per key until it
\* completes.
C18_OneFetchInFlightPerKey ==
    \A f \in BagToSet(inflight) : InFlightFor(f) = 1

\* C19 (as claimed), for the key Probe: once an instance has seen a request
\* for the key complete, it starts no other request for it.
C19_AtMostOncePerKey ==
    ~(effectRun = "started" /\ lastFetchKey = Probe /\ probeCompleted)

\* C19 (amended): an instance starts a request only when none of its own is
\* in flight and only for a key other than the one it requested last.
C19_NotRepeatedForLastKey ==
    [][effectRun' = "started" =>
          /\ ~isFetching
          /\ lastFetchKey' # lastFetchKey
          /\ lastFetchKey' = FetchKey(Current)']_vars

\* C19 witness: the effect ran with no request in flight for the key the
\* instance requested last, and started nothing.
C19_Witness ==
    /\ mounted
    /\ effectRun = "skipped"
    /\ ~isFetching
    /\ lastFetchKey = FetchKey(Current)

\* C20: a step that handles a failed directions request leaves RouteInfo,
\* RouteCoordinates, destination, current location and journey flag as they
\* are, starts no request, sets the loading flag to false and releases
\* isFetchingRef of the instance that made the request; nothing else changes.
C20_FailureLeavesRoute ==
    [][call'.name = "fetchFailed" =>
          /\ routeInfo' = routeInfo
          /\ routeCoordinates' = routeCoordinates
          /\ destination' = destination
          /\ currentLocation' = currentLocation
          /\ isJourneyActive' = isJourneyActive
          /\ mounted' = mounted
          /\ lastFetchKey' = lastFetchKey
          /\ effectRun' = "none"
          /\ pending' = <<>>
          /\ ~isLoadingRoute'
          /\ isFetching' = (isFetching /\ ~call'.arg.live)]_vars

\* C20 witness: a request of the mounted instance failed on the network
\* while a route was shown, and the route is still there.
C20_Witness ==
    /\ call.name = "fetchFailed"
    /\ call.arg.kind = "network"
    /\ call.arg.live
    /\ routeInfo # NoRoute
    /\ routeCoordinates = routeInfo
    /\ ~isLoadingRoute
    /\ ~isFetching


\* C22: at most one deviation-check interval timer is running, and a timer
\* runs only while the routing component is mounted with a route that is
\* not empty.
C22_OneTimerAtMost ==
    /\ Cardinality(intervals) <= 1
    /\ intervals # {} => mounted /\ routeCoordinates # NoRoute

\* C22 witness: the mounted component had a timer (its ref still holds the
\* id) and the route became empty; the timer is gone.
C22_Witness ==
    /\ mounted
    /\ routeCheckIntervalRef # 0
    /\ routeCoordinates = NoRoute
    /\ intervals = {}


\* The route shown was computed from the fix l, or the check's finding is
\* out of date because the position or the destination changed since.
Recalculated(l) ==
    \/ routeCoordinates # NoRoute /\ routeCoordinates[1] = l
    \/ currentLocation # l
    \/ destination = NullDest

\* C21: whenever the deviation check finds the current fix deviated from the
\* route, the route is eventually replaced by one computed from that fix
\* (unless the position or the destination changes first).
C21_DeviationRecalculates ==
    \A l \in Locs : (deviationSeen = l) ~> Recalculated(l)


\* C23: once the component is unmounted and startLocationTracking has run
\* to its end, neither the position nor the heading subscription is active.
C23_SubscriptionsReleased ==
    (~hookMounted /\ hookPc = "done") =>
        positionWatch # "active" /\ headingWatch # "active"


\* C24: a route shown while a destination is set was computed for the
\* coordinates of that destination.
C24_RouteForCurrentDestination ==
    (routeInfo # NoRoute /\ destination # NullDest) =>
        routeInfo[2] = destination.place

\* C25: while the destination is null, RouteInfo is null and
\* RouteCoordinates is empty.
C25_NoRouteWithoutDestination ==
    destination = NullDest =>
        routeInfo = NoRoute /\ routeCoordinates = NoRoute


\* C26: whenever updateDestination has set the loading flag while a fix is
\* known, the loading flag eventually becomes false, every directions
\* request getting its response.
C26_LoadingEnds ==
    (call.name = "updateDestination" /\ isLoadingRoute /\ currentLocation # 0)
        ~> ~isLoadingRoute


\* The list holds an entry for the place of e.
Holds(list, e) ==
    \E j \in 1..Len(list) :
        /\ list[j].placeId = e.placeId
        /\ list[j].latitude = e.latitude
        /\ list[j].longitude = e.longitude

\* C27: a save that completes, with room left below the capacity, keeps
\* every stored entry whose key differs from the key of the entry it saves,
\* among them the entry of a save that overlapped it.
C27_OverlappingSavesBothKept ==
    [][(/\ \E h \in Savers : saving[h] # NotSaving /\ saving'[h] = NotSaving
        /\ last'.op = "save"
        /\ ~last'.failed
        /\ Len(History) < STORAGE_CAP) =>
          \A i \in 1..Len(History) :
              SameKey(last'.arg, History[i]) \/ Holds(History', History[i])]_vars


\* C28: the destination is null or has coordinates.
C28_DestinationHasCoordinates ==
    destination = NullDest \/ destination.place # 0

\* C29: when the favorite toggle of the details modal has completed, every
\* history entry that matches the destination carries the destination's
\* favorite flag.
C29_FavoriteAgreesWithHistory ==
    (/\ call.name = "handleToggleFavorite"
     /\ destination # NullDest
     /\ destination.place # 0) =>
        \A i \in 1..Len(History) :
            ToggleMatches(DestinationMatcher(destination), History[i]) =>
                History[i].favorite = destination.favorite


\* C30: below 60 minutes formatDuration gives the rounded minute count; from
\* 60 minutes on it gives the whole hours and a minutes part from 0 to 59.
C30_DurationWellFormed ==
    formatted # NotFormatted =>
        IF duration < 60 * Tenths
        THEN /\ formatted.unit = "min"
             /\ formatted.minutes = MathRound(duration)
        ELSE /\ formatted.unit = "hm"
             /\ formatted.hours = duration \div (60 * Tenths)
             /\ formatted.minutes \in 0..59

====
